---- MODULE Spec2Model ----
(***************************************************************************)
(* The rule evaluators of the EBD audit tools: the web variant             *)
(* (ebd_webapp.py) and the terminal "pro" variant (ebd_auditor_pro.py).    *)
(*                                                                         *)
(* Quantities are exact fixed-point numbers:                               *)
(*   slope ratio      in units of 1/300  (0.02 = 6, 1/20 = 15, 1/12 = 25)  *)
(*   DCOF             in units of 1/200  (0.42 = 84, 0.55 = 110, 0.60 = 120)*)
(*   illuminance      in lux                                               *)
(*   turning diameter in mm                                                *)
(* On these grids the float comparisons of the source and the exact ones   *)
(* of the model agree.                                                     *)
(*                                                                         *)
(* A diagnostic note is modelled as the f-string that produced it: a       *)
(* tuple of the template's tag and the values substituted into it.         *)
(***************************************************************************)
EXTENDS Integers, Sequences, FiniteSets

VARIABLES
    params,          \* the input record of one audit request
    floor_auditor,   \* web FloorSafetyAudit instance fields
    light_auditor,   \* web LightingAudit instance fields
    space_auditor,   \* web SpatialAudit instance fields
    pro_floor,       \* pro FloorSafetyAudit instance fields
    pro_light,       \* pro LightingAudit instance fields
    res_floor,       \* web: verdict of audit_material
    res_light,       \* web: verdict of audit_space_lighting
    res_turn,        \* web: verdict of audit_turning_circle
    res_slope,       \* web: verdict of audit_ramp_slope
    result_floor,    \* pro: what FloorSafetyAudit.audit returned last
    result_light,    \* pro: what LightingAudit.audit returned last
    result_spatial,  \* pro: what SpatialAudit.audit returned last
    tabs,            \* web: what the three result tabs show
    pdf_context,     \* web: the report context handed to the PDF exporter
    pdf_table,       \* web: the data rows of the exported PDF's table
    table,           \* pro: the rows of the case's table
    all_logs,        \* pro: the notes collected for the remediation panel
    panel,           \* pro: the panel printed under the table
    element,         \* rule-table auditor: the space element under review
    rule_rows        \* rule-table auditor: the rows of the element's table

auditors == <<floor_auditor, light_auditor, space_auditor, pro_floor, pro_light>>
web_res == <<res_floor, res_light, res_turn, res_slope>>
pro_res == <<result_floor, result_light, result_spatial>>
web_report == <<tabs, pdf_context, pdf_table>>
pro_report == <<table, all_logs, panel>>
rule_check == <<element, rule_rows>>
vars == <<params, auditors, web_res, pro_res, web_report, pro_report, rule_check>>

----------------------------------------------------------------------------
(* Bounds of the input grids.                                              *)

\* slope ratios 0 .. MaxSlope/300
MaxSlope == 27
\* measured DCOF 0.00 .. MaxDcof/100 in steps of 0.01
MaxDcof == 75
\* illuminance 0 .. 50*MaxLux lux in steps of 50
MaxLux == 16
\* turning diameter 0 .. 25*MaxTurn mm in steps of 25
MaxTurn == 64
\* rule-table auditor: slope ratios 0 .. MaxRuleSlope/3000
MaxRuleSlope == 300

(* Program constants.                                                      *)

\* the DIN slip-resistance ratings the form offers: 9 .. 13
MinRValue == 9
MaxRValue == 13
\* slope ratio above which a floor is a ramp: 0.02
RAMP_SLOPE == 6
\* slope ratio from which a ramp needs R12: 0.05
RAMP_R12_SLOPE == 15

\* adjacent_zone_lux=None, a key missing from the pro record
None == -1

Zones == {"Corridor", "Bathroom", "OutdoorRamp", "TherapyPool", "Dining",
          "Task", "Unlisted"}
Slopes == 0..MaxSlope
Dcofs == {2 * k : k \in 0..MaxDcof}
RValues == {0} \cup (MinRValue..MaxRValue)
Luxes == {50 * k : k \in 0..MaxLux}
Turns == {25 * k : k \in 0..MaxTurn}

\* The web form's zone labels (zone_map keys, LUX_TARGETS keys); a zone
\* outside both tables keeps its own name.
web_zone_type(z) ==
    CASE z = "Corridor"    -> "(Corridor)"
      [] z = "Bathroom"    -> "(Bathroom)"
      [] z = "OutdoorRamp" -> "(Outdoor Ramp)"
      [] z = "TherapyPool" -> "(Therapy Pool)"
      [] z = "Dining"      -> "(Dining)"
      [] z = "Task"        -> "(Task)"
      [] OTHER             -> z

\* The pro records' zone_type values.
pro_zone_type(z) ==
    CASE z = "Bathroom"    -> "bathroom"
      [] z = "OutdoorRamp" -> "ramp_outdoor"
      [] OTHER             -> z

\* dict.get(key, 0) of the pro record: a missing key reads as 0
data_get(v) == IF v = None THEN 0 ELSE v

\* The web form's widget defaults.
WebDefaults ==
    [zone_type |-> "Corridor", slope |-> 0, dcof |-> 84, r_value |-> 9,
     lux |-> 300, adjacent_lux |-> 100, turning_diameter |-> 1500]

NoVerdict == [status |-> "None"]

\* no report has been produced
NoContext == [zone_name |-> "None"]

\* no element is under review
NoElement ==
    [id |-> "None", category |-> "None", door_width |-> None,
     has_emergency_call |-> FALSE, area |-> None, slope_ratio |-> None,
     width |-> None]

----------------------------------------------------------------------------
(* Module 1: surface friction.                                             *)

FloorSafetyAudit_init ==
    [ANSI_LEVEL_INTERIOR_WET |-> 84, EBD_WET_RISK_UPLIFT |-> 110,
     EBD_RAMP_BASE_DCOF |-> 120]

ProFloorSafetyAudit_init ==
    [EBD_RAMP_BASE_DCOF |-> 120, EBD_WET_RISK_UPLIFT |-> 110]

\* slope_ratio * 1.5, a slope (1/300) as a DCOF (1/200)
slope_times_1_5(slope) == (slope * 15 * 200) \div (10 * 300)

\* requirements with the Therapy Pool branch tried before the ramp branch
requirements_pool_first(self, zone_type, slope_ratio) ==
    LET is_wet_zone == zone_type \in {"(Bathroom)", "(Dining)",
                                      "(Therapy Pool)", "(Outdoor Ramp)"}
        is_ramp == slope_ratio > RAMP_SLOPE
    IN  IF zone_type = "(Therapy Pool)"
        THEN [min_dcof |-> 120, min_r |-> 12,
              standard_ref |-> "ANSI Wet Plus / DIN 51097"]
        ELSE IF is_ramp
        THEN [min_dcof |-> self.EBD_RAMP_BASE_DCOF + slope_times_1_5(slope_ratio),
              min_r |-> IF slope_ratio < RAMP_R12_SLOPE THEN 11 ELSE 12,
              standard_ref |-> "EBD Physics + DIN 51130 (Ramp)"]
        ELSE IF is_wet_zone
        THEN [min_dcof |-> self.EBD_WET_RISK_UPLIFT, min_r |-> 11,
              standard_ref |-> "EBD Geriatric Safety Uplift"]
        ELSE [min_dcof |-> 84, min_r |-> 9, standard_ref |-> "ANSI A326.3"]

\* audit_material, the threshold resolution
requirements(self, zone_type, slope_ratio) ==
    LET is_wet_zone == zone_type \in {"(Bathroom)", "(Dining)",
                                      "(Therapy Pool)", "(Outdoor Ramp)"}
        is_ramp == slope_ratio > RAMP_SLOPE
    IN  IF is_ramp
        THEN [min_dcof |-> self.EBD_RAMP_BASE_DCOF + slope_times_1_5(slope_ratio),
              min_r |-> IF slope_ratio < RAMP_R12_SLOPE THEN 11 ELSE 12,
              standard_ref |-> "EBD Physics + DIN 51130 (Ramp)"]
        ELSE IF zone_type = "(Therapy Pool)"
        THEN [min_dcof |-> 120, min_r |-> 12,
              standard_ref |-> "ANSI Wet Plus / DIN 51097"]
        ELSE IF is_wet_zone
        THEN [min_dcof |-> self.EBD_WET_RISK_UPLIFT, min_r |-> 11,
              standard_ref |-> "EBD Geriatric Safety Uplift"]
        ELSE [min_dcof |-> 84, min_r |-> 9, standard_ref |-> "ANSI A326.3"]

\* floor_checks with <= for <: a measurement on its threshold fails
floor_checks_nonstrict(zone_type, req, measured_dcof, din_r_value) ==
    LET notes1 == IF measured_dcof <= req.min_dcof
                  THEN <<<<"DCOF", measured_dcof, req.min_dcof>>>>
                  ELSE <<>>
        notes2 == IF din_r_value <= req.min_r
                  THEN Append(notes1, <<"R", din_r_value, req.min_r>>)
                  ELSE notes1
        status1 == IF measured_dcof <= req.min_dcof THEN "FAIL" ELSE "PASS"
        status == IF din_r_value <= req.min_r THEN "FAIL" ELSE status1
        notes3 == IF status = "FAIL" /\ zone_type \in {"(Bathroom)", "(Outdoor Ramp)"}
                  THEN Append(notes2, <<"CRITICAL">>)
                  ELSE notes2
    IN  [status |-> status, log |-> notes3]

\* floor_checks with the advisory given to every wet zone
floor_checks_wet_advisory(zone_type, req, measured_dcof, din_r_value) ==
    LET notes1 == IF measured_dcof < req.min_dcof
                  THEN <<<<"DCOF", measured_dcof, req.min_dcof>>>>
                  ELSE <<>>
        notes2 == IF din_r_value < req.min_r
                  THEN Append(notes1, <<"R", din_r_value, req.min_r>>)
                  ELSE notes1
        status1 == IF measured_dcof < req.min_dcof THEN "FAIL" ELSE "PASS"
        status == IF din_r_value < req.min_r THEN "FAIL" ELSE status1
        notes3 == IF status = "FAIL" /\ zone_type \in {"(Bathroom)", "(Dining)",
                                        "(Therapy Pool)", "(Outdoor Ramp)"}
                  THEN Append(notes2, <<"CRITICAL">>)
                  ELSE notes2
    IN  [status |-> status, log |-> notes3]

\* audit_material, the two checks and the advisory
floor_checks(zone_type, req, measured_dcof, din_r_value) ==
    LET notes1 == IF measured_dcof < req.min_dcof
                  THEN <<<<"DCOF", measured_dcof, req.min_dcof>>>>
                  ELSE <<>>
        notes2 == IF din_r_value < req.min_r
                  THEN Append(notes1, <<"R", din_r_value, req.min_r>>)
                  ELSE notes1
        status1 == IF measured_dcof < req.min_dcof THEN "FAIL" ELSE "PASS"
        status == IF din_r_value < req.min_r THEN "FAIL" ELSE status1
        notes3 == IF status = "FAIL" /\ zone_type \in {"(Bathroom)", "(Outdoor Ramp)"}
                  THEN Append(notes2, <<"CRITICAL">>)
                  ELSE notes2
    IN  [status |-> status, log |-> notes3]

audit_material(self, zone_type, slope_ratio, measured_dcof, din_r_value) ==
    LET req == requirements(self, zone_type, slope_ratio)
        chk == floor_checks(zone_type, req, measured_dcof, din_r_value)
    IN  [module |-> "floor", status |-> chk.status, requirements |-> req,
         log |-> chk.log]

\* pro FloorSafetyAudit.audit, the threshold resolution
pro_req(self, zone, slope) ==
    IF slope > RAMP_SLOPE
    THEN [dcof |-> self.EBD_RAMP_BASE_DCOF + slope_times_1_5(slope),
          r |-> IF slope < RAMP_R12_SLOPE THEN 11 ELSE 12,
          ref |-> "EBD Physics + DIN 51130"]
    ELSE IF zone = "bathroom"
    THEN [dcof |-> self.EBD_WET_RISK_UPLIFT, r |-> 11,
          ref |-> "EBD Geriatric Safety Uplift"]
    ELSE [dcof |-> 84, r |-> 9, ref |-> "ANSI A326.3"]

pro_floor_audit(self, data) ==
    LET zone == data.zone_type
        slope == data_get(data.slope)
        dcof == data_get(data.dcof)
        r_val == data_get(data.r_value)
        req == pro_req(self, zone, slope)
        notes1 == IF dcof < req.dcof
                  THEN <<<<"DCOF", dcof, req.dcof, req.ref>>>>
                  ELSE <<>>
        notes2 == IF r_val < req.r
                  THEN Append(notes1, <<"R", r_val, req.r>>)
                  ELSE notes1
        status1 == IF dcof < req.dcof THEN "FAIL" ELSE "PASS"
        status == IF r_val < req.r THEN "FAIL" ELSE status1
        notes3 == IF status = "FAIL" /\ zone \in {"bathroom", "ramp_outdoor"}
                  THEN Append(notes2, <<"CRITICAL">>)
                  ELSE notes2
    IN  [status |-> status, module |-> "floor", logs |-> notes3]

----------------------------------------------------------------------------
(* Module 2: illuminance.                                                  *)

LightingAudit_init ==
    [LUX_TARGETS |-> [z \in {"(Dining)", "(Task)", "(Corridor)", "(Bathroom)",
                             "(Therapy Pool)", "(Outdoor Ramp)"} |->
                        CASE z = "(Dining)"       -> 500
                          [] z = "(Task)"         -> 750
                          [] z = "(Corridor)"     -> 300
                          [] z = "(Bathroom)"     -> 500
                          [] z = "(Therapy Pool)" -> 750
                          [] z = "(Outdoor Ramp)" -> 150],
     MAX_ADAPTATION_RATIO |-> 3]

ProLightingAudit_init == [MAX_RATIO |-> 3]

Max(a, b) == IF a >= b THEN a ELSE b
Min(a, b) == IF a <= b THEN a ELSE b

\* max(a, b) / (min(a, b) + 0.01) > limit, both sides times 100
ratio_exceeds(a, b, limit) == 100 * Max(a, b) > limit * (100 * Min(a, b) + 1)

\* self.LUX_TARGETS.get(zone_type, 300)
lux_target(self, zone_type) ==
    IF zone_type \in DOMAIN self.LUX_TARGETS
    THEN self.LUX_TARGETS[zone_type]
    ELSE 300

\* truthy as "is not None": a reading of 0 counts as provided
truthy_not_none(v) == v # None

\* the truth value of adjacent_zone_lux
truthy(v) == v # None /\ v # 0

audit_space_lighting(self, zone_type, measured_lux, adjacent_zone_lux) ==
    LET target_lux == lux_target(self, zone_type)
        notes1 == IF measured_lux < target_lux
                  THEN <<<<"LUX", measured_lux, target_lux>>>>
                  ELSE <<>>
        status1 == IF measured_lux < target_lux THEN "FAIL" ELSE "PASS"
        over == /\ truthy(adjacent_zone_lux)
                /\ ratio_exceeds(measured_lux, adjacent_zone_lux,
                                 self.MAX_ADAPTATION_RATIO)
        notes2 == IF over
                  THEN Append(notes1, <<"RATIO", Max(measured_lux, adjacent_zone_lux),
                                        Min(measured_lux, adjacent_zone_lux),
                                        self.MAX_ADAPTATION_RATIO>>)
                  ELSE notes1
        status == IF over THEN "FAIL" ELSE status1
    IN  [module |-> "light", status |-> status, target_lux |-> target_lux,
         log |-> notes2]

pro_lighting_audit(self, data) ==
    LET lux == data_get(data.lux)
        adj_lux == data_get(data.adjacent_lux)
        target == IF data.zone_type = "bathroom" THEN 500 ELSE 300
        notes1 == IF lux < target THEN <<<<"LUX", lux, target>>>> ELSE <<>>
        status1 == IF lux < target THEN "FAIL" ELSE "PASS"
        over == adj_lux > 0 /\ ratio_exceeds(lux, adj_lux, self.MAX_RATIO)
        notes2 == IF over
                  THEN Append(notes1, <<"RATIO", Max(lux, adj_lux),
                                        Min(lux, adj_lux), self.MAX_RATIO>>)
                  ELSE notes1
        status == IF over THEN "FAIL" ELSE status1
    IN  [status |-> status, module |-> "light", logs |-> notes2]

----------------------------------------------------------------------------
(* Module 4: spatial clearance.                                            *)

SpatialAudit_init ==
    [MIN_TURNING_DIA |-> 1525, MAX_SLOPE_HARD |-> 25, MAX_SLOPE_SOFT |-> 15]

\* audit_turning_circle returning FAIL without a note
audit_turning_circle_no_note(self, clear_width_mm) ==
    IF clear_width_mm >= self.MIN_TURNING_DIA
    THEN [module |-> "turn", status |-> "PASS", log |-> <<>>]
    ELSE [module |-> "turn", status |-> "FAIL", log |-> <<>>]

audit_turning_circle(self, clear_width_mm) ==
    IF clear_width_mm >= self.MIN_TURNING_DIA
    THEN [module |-> "turn", status |-> "PASS", log |-> <<>>]
    ELSE [module |-> "turn", status |-> "FAIL",
          log |-> <<<<"TURN", clear_width_mm>>>>]

\* audit_ramp_slope with >= for > at 1:12
audit_ramp_slope_hard_inclusive(self, slope_ratio) ==
    IF slope_ratio >= self.MAX_SLOPE_HARD
    THEN [module |-> "slope", status |-> "FAIL",
          log |-> <<<<"SLOPE_HARD", slope_ratio>>>>]
    ELSE IF slope_ratio > self.MAX_SLOPE_SOFT
    THEN [module |-> "slope", status |-> "WARNING",
          log |-> <<<<"SLOPE_SOFT", slope_ratio>>>>]
    ELSE [module |-> "slope", status |-> "PASS", log |-> <<>>]

\* audit_ramp_slope with >= for > at 1:20
audit_ramp_slope_soft_inclusive(self, slope_ratio) ==
    IF slope_ratio > self.MAX_SLOPE_HARD
    THEN [module |-> "slope", status |-> "FAIL",
          log |-> <<<<"SLOPE_HARD", slope_ratio>>>>]
    ELSE IF slope_ratio >= self.MAX_SLOPE_SOFT
    THEN [module |-> "slope", status |-> "WARNING",
          log |-> <<<<"SLOPE_SOFT", slope_ratio>>>>]
    ELSE [module |-> "slope", status |-> "PASS", log |-> <<>>]

audit_ramp_slope(self, slope_ratio) ==
    IF slope_ratio > self.MAX_SLOPE_HARD
    THEN [module |-> "slope", status |-> "FAIL",
          log |-> <<<<"SLOPE_HARD", slope_ratio>>>>]
    ELSE IF slope_ratio > self.MAX_SLOPE_SOFT
    THEN [module |-> "slope", status |-> "WARNING",
          log |-> <<<<"SLOPE_SOFT", slope_ratio>>>>]
    ELSE [module |-> "slope", status |-> "PASS", log |-> <<>>]

\* pro SpatialAudit.audit: the literals 1525, 1/20.0 and 1/12.0
PRO_MIN_TURNING_DIA == 1525
PRO_SLOPE_SOFT == 15
PRO_SLOPE_HARD == 25

pro_spatial_audit(data) ==
    LET dia == data_get(data.turning_diameter)
        slope == data_get(data.slope)
        turn_fails == dia > 0 /\ dia < PRO_MIN_TURNING_DIA
        notes1 == IF turn_fails THEN <<<<"TURN", dia>>>> ELSE <<>>
        status1 == IF turn_fails THEN "FAIL" ELSE "PASS"
        notes2 == IF slope > PRO_SLOPE_SOFT /\ slope <= PRO_SLOPE_HARD
                  THEN Append(notes1, <<"SLOPE_SOFT">>)
                  ELSE IF slope > PRO_SLOPE_HARD
                  THEN Append(notes1, <<"SLOPE_HARD", slope>>)
                  ELSE notes1
        status == IF slope > PRO_SLOPE_SOFT /\ slope <= PRO_SLOPE_HARD
                  THEN "WARNING"
                  ELSE IF slope > PRO_SLOPE_HARD THEN "FAIL" ELSE status1
    IN  [status |-> status, module |-> "spatial", logs |-> notes2]

----------------------------------------------------------------------------
(* The operations: one call of one evaluator on the request's record.      *)

\* audit_material keeping the resolved ramp threshold on the instance
WebAuditMaterial_caching ==
    /\ res_floor' = audit_material(floor_auditor, web_zone_type(params.zone_type),
                                   params.slope, params.dcof, params.r_value)
    /\ floor_auditor' = [floor_auditor EXCEPT
                            !.EBD_RAMP_BASE_DCOF = res_floor'.requirements.min_dcof]
    /\ UNCHANGED <<params, light_auditor, space_auditor, pro_floor, pro_light,
                   res_light, res_turn, res_slope, pro_res,
                   web_report, pro_report, rule_check>>

WebAuditMaterial ==
    /\ res_floor' = audit_material(floor_auditor, web_zone_type(params.zone_type),
                                   params.slope, params.dcof, params.r_value)
    /\ UNCHANGED <<params, auditors, res_light, res_turn, res_slope, pro_res,
                   web_report, pro_report, rule_check>>

WebAuditSpaceLighting ==
    /\ res_light' = audit_space_lighting(light_auditor,
                                         web_zone_type(params.zone_type),
                                         params.lux, params.adjacent_lux)
    /\ UNCHANGED <<params, auditors, res_floor, res_turn, res_slope, pro_res,
                   web_report, pro_report, rule_check>>

WebAuditTurningCircle ==
    /\ res_turn' = audit_turning_circle(space_auditor, params.turning_diameter)
    /\ UNCHANGED <<params, auditors, res_floor, res_light, res_slope, pro_res,
                   web_report, pro_report, rule_check>>

WebAuditRampSlope ==
    /\ res_slope' = audit_ramp_slope(space_auditor, params.slope)
    /\ UNCHANGED <<params, auditors, res_floor, res_light, res_turn, pro_res,
                   web_report, pro_report, rule_check>>

\* the record handed to the pro auditors
pro_data ==
    [params EXCEPT !.zone_type = pro_zone_type(params.zone_type)]

ProFloorAudit ==
    /\ result_floor' = pro_floor_audit(pro_floor, pro_data)
    /\ UNCHANGED <<params, auditors, web_res, result_light, result_spatial,
                   web_report, pro_report, rule_check>>

ProLightingAudit ==
    /\ result_light' = pro_lighting_audit(pro_light, pro_data)
    /\ UNCHANGED <<params, auditors, web_res, result_floor, result_spatial,
                   web_report, pro_report, rule_check>>

ProSpatialAudit ==
    /\ result_spatial' = pro_spatial_audit(pro_data)
    /\ UNCHANGED <<params, auditors, web_res, result_floor, result_light,
                   web_report, pro_report, rule_check>>

----------------------------------------------------------------------------
(* The web handler: the "run audit" button.                                *)

\* the zones the form's selectbox offers, with their zone_map names
WebFormZones == {"Corridor", "Bathroom", "OutdoorRamp", "TherapyPool", "Dining"}

zone_name_en(z) ==
    CASE z = "Corridor"    -> "Corridor"
      [] z = "Bathroom"    -> "Bathroom"
      [] z = "OutdoorRamp" -> "Outdoor Ramp"
      [] z = "TherapyPool" -> "Therapy Pool"
      [] z = "Dining"      -> "Dining"

\* log[0]: an empty list raises IndexError
first_note(log) == IF log = <<>> THEN <<"IndexError">> ELSE log[1]

\* tab1 and tab2: success, or the error with every note
render_tab(res, extra) ==
    IF res.status = "PASS"
    THEN <<<<"success">>>>
    ELSE <<<<"error">>>> \o res.log \o extra

\* tab3: the turning line, then the slope line
render_tab3(turn, slope, turning_dia) ==
    << IF turn.status = "FAIL"
       THEN <<"error", first_note(turn.log)>>
       ELSE <<"success", <<"dia", turning_dia>>>>,
       IF slope.status = "FAIL"
       THEN <<"error", first_note(slope.log)>>
       ELSE IF slope.status = "WARNING"
       THEN <<"warning", first_note(slope.log)>>
       ELSE <<"success", <<"slope">>>> >>

\* "\n".join(log) if log else "Compliant"
pdf_notes(log) == IF log # <<>> THEN log ELSE <<<<"Compliant">>>>

\* generate_audit_report_pdf: the data rows of the table
generate_audit_report_pdf(context_data) ==
    LET floor == context_data.res_floor
        light == context_data.res_light
        space == context_data.res_turn
    IN  << [module |-> "Surface Kinetics",
            metric |-> <<context_data.inputs.dcof, context_data.inputs.r_value>>,
            status |-> floor.status, notes |-> pdf_notes(floor.log)],
           [module |-> "Photobiological",
            metric |-> <<context_data.inputs.lux, light.target_lux>>,
            status |-> light.status, notes |-> pdf_notes(light.log)],
           [module |-> "Spatial Kinematics",
            metric |-> <<context_data.inputs.turn>>,
            status |-> space.status, notes |-> pdf_notes(space.log)] >>

\* the report context the handler builds
make_pdf_context(zone, inputs, floor, light, turn) ==
    [zone_name |-> zone_name_en(zone),
     inputs |-> [dcof |-> inputs.dcof, r_value |-> inputs.r_value,
                 lux |-> inputs.lux, turn |-> inputs.turning_diameter],
     res_floor |-> floor, res_light |-> light, res_turn |-> turn]

\* if run_audit: the four evaluators, the three tabs, the PDF.  An
\* IndexError in tab3 ends the run before the PDF is made.
WebRunAudit ==
    /\ params.zone_type \in WebFormZones
    /\ params.r_value \in MinRValue..MaxRValue
    /\ params.adjacent_lux # None
    /\ LET zone_type == web_zone_type(params.zone_type)
           floor == audit_material(floor_auditor, zone_type, params.slope,
                                   params.dcof, params.r_value)
           light == audit_space_lighting(light_auditor, zone_type, params.lux,
                                         params.adjacent_lux)
           turn == audit_turning_circle(space_auditor, params.turning_diameter)
           slope == audit_ramp_slope(space_auditor, params.slope)
           tab3 == render_tab3(turn, slope, params.turning_diameter)
           raised == \E i \in 1..2 : tab3[i][2][1] = "IndexError"
           context == make_pdf_context(params.zone_type, params, floor, light, turn)
       IN  /\ res_floor' = floor
           /\ res_light' = light
           /\ res_turn' = turn
           /\ res_slope' = slope
           /\ tabs' = << render_tab(floor, <<<<"info", floor.requirements.standard_ref>>>>),
                         render_tab(light, <<>>),
                         tab3 >>
           /\ IF raised
              THEN UNCHANGED <<pdf_context, pdf_table>>
              ELSE /\ pdf_context' = context
                   /\ pdf_table' = generate_audit_report_pdf(context)
    /\ UNCHANGED <<params, auditors, pro_res, pro_report, rule_check>>

----------------------------------------------------------------------------
(* The pro program: one case of main's loop.                               *)

pro_icon(status) ==
    IF status = "PASS" THEN "PASS"
    ELSE IF status = "WARNING" THEN "WARN" ELSE "FAIL"

\* table.add_row(result["module"], icon, log_text)
pro_row(res) ==
    [module |-> res.module, icon |-> pro_icon(res.status),
     log_text |-> IF res.logs # <<>> THEN res.logs[1] ELSE <<"compliant">>]

\* the notes a result adds to all_logs
pro_logs(res) ==
    IF res.status # "PASS"
    THEN [i \in 1..Len(res.logs) |-> <<res.module, res.logs[i]>>]
    ELSE <<>>

\* for auditor in auditors: ...; then the panel
ProMainCase ==
    /\ LET floor == pro_floor_audit(pro_floor, pro_data)
           light == pro_lighting_audit(pro_light, pro_data)
           spatial == pro_spatial_audit(pro_data)
           logs == pro_logs(floor) \o pro_logs(light) \o pro_logs(spatial)
       IN  /\ result_floor' = floor
           /\ result_light' = light
           /\ result_spatial' = spatial
           /\ table' = <<pro_row(floor), pro_row(light), pro_row(spatial)>>
           /\ all_logs' = logs
           /\ panel' = IF logs # <<>> THEN "remediation" ELSE "excellent"
    /\ UNCHANGED <<params, auditors, web_res, web_report, rule_check>>

----------------------------------------------------------------------------
(* The rule-table auditor (ebd_auditor.py).  Its slope ratio is in units   *)
(* of 1/3000 (1/12 = 250, 0.001 = 3), its area in units of 0.1 m2.         *)

rule_toilet_door_width(p) ==
    LET width == data_get(p.door_width)
    IN  IF width >= 900
        THEN [passed |-> TRUE, measured |-> <<"mm", width>>, suggestion |-> "ok"]
        ELSE [passed |-> FALSE, measured |-> <<"red mm", width>>,
              suggestion |-> "widen to 900mm"]

rule_toilet_emergency_call(p) ==
    IF p.has_emergency_call
    THEN [passed |-> TRUE, measured |-> <<"present">>, suggestion |-> "ok"]
    ELSE [passed |-> FALSE, measured |-> <<"red absent">>,
          suggestion |-> "add emergency call"]

rule_toilet_area(p) ==
    LET area == data_get(p.area)
    IN  IF area >= 40
        THEN [passed |-> TRUE, measured |-> <<"m2", area>>, suggestion |-> "roomy"]
        ELSE [passed |-> FALSE, measured |-> <<"red m2", area>>,
              suggestion |-> "enlarge to 4.0m2"]

\* limit = 1/12; slope <= limit + 0.001; the ratio shown is int(1/slope)
rule_ramp_slope(p) ==
    LET slope == data_get(p.slope_ratio)
    IN  IF slope <= 250 + 3
        THEN [passed |-> TRUE,
              measured |-> IF slope > 0 THEN <<"1:", 3000 \div slope>>
                                        ELSE <<"0">>,
              suggestion |-> "ok"]
        ELSE [passed |-> FALSE, measured |-> <<"red 1:", 3000 \div slope>>,
              suggestion |-> "too steep"]

rule_ramp_width(p) ==
    LET width == data_get(p.width)
    IN  IF width >= 1200
        THEN [passed |-> TRUE, measured |-> <<"mm", width>>, suggestion |-> "ok"]
        ELSE [passed |-> FALSE, measured |-> <<"red mm", width>>,
              suggestion |-> "widen to 1200mm"]

ALL_RULES ==
    << [id |-> "R-001", target_category |-> "Toilet"],
       [id |-> "R-002", target_category |-> "Toilet"],
       [id |-> "R-005", target_category |-> "Toilet"],
       [id |-> "R-003", target_category |-> "Ramp"],
       [id |-> "R-004", target_category |-> "Ramp"] >>

\* rule.check_func(element.params)
check_func(rule, p) ==
    CASE rule.id = "R-001" -> rule_toilet_door_width(p)
      [] rule.id = "R-002" -> rule_toilet_emergency_call(p)
      [] rule.id = "R-005" -> rule_toilet_area(p)
      [] rule.id = "R-003" -> rule_ramp_slope(p)
      [] rule.id = "R-004" -> rule_ramp_width(p)

\* run_element_check: one row per applicable rule
run_element_check(el) ==
    LET applicable_rules ==
            SelectSeq(ALL_RULES, LAMBDA r : r.target_category = el.category)
        row(rule) ==
            LET res == check_func(rule, el)
            IN  [id |-> rule.id, measured |-> res.measured,
                 status |-> IF res.passed THEN "PASS" ELSE "FAIL",
                 suggestion |-> IF ~res.passed THEN res.suggestion ELSE "none"]
    IN  [i \in 1..Len(applicable_rules) |-> row(applicable_rules[i])]

RunElementCheck ==
    /\ rule_rows' = run_element_check(element)
    /\ UNCHANGED <<params, auditors, web_res, pro_res, web_report, pro_report,
                   element>>

----------------------------------------------------------------------------
(* Specifications.  The auditors are constructed, no evaluator has run,    *)
(* and the request's record is drawn from the input grid.                  *)

Constructed ==
    /\ floor_auditor = FloorSafetyAudit_init
    /\ light_auditor = LightingAudit_init
    /\ space_auditor = SpatialAudit_init
    /\ pro_floor = ProFloorSafetyAudit_init
    /\ pro_light = ProLightingAudit_init
    /\ res_floor = NoVerdict
    /\ res_light = NoVerdict
    /\ res_turn = NoVerdict
    /\ res_slope = NoVerdict
    /\ result_floor = NoVerdict
    /\ result_light = NoVerdict
    /\ result_spatial = NoVerdict
    /\ tabs = <<>>
    /\ pdf_context = NoContext
    /\ pdf_table = <<>>
    /\ table = <<>>
    /\ all_logs = <<>>
    /\ panel = "None"

\* the rule-table auditor has reviewed nothing
NoRuleCheck == element = NoElement /\ rule_rows = <<>>

FloorInputs ==
    {[WebDefaults EXCEPT !.zone_type = z, !.slope = s, !.dcof = d, !.r_value = r] :
        z \in Zones, s \in Slopes, d \in Dcofs, r \in RValues}

LightInputs ==
    {[WebDefaults EXCEPT !.zone_type = z, !.lux = l, !.adjacent_lux = a] :
        z \in Zones, l \in Luxes, a \in Luxes \cup {None}}

SpatialInputs ==
    {[WebDefaults EXCEPT !.turning_diameter = t, !.slope = s] :
        t \in Turns, s \in Slopes}

InitFloor == params \in FloorInputs /\ Constructed /\ NoRuleCheck
NextFloor == WebAuditMaterial \/ ProFloorAudit
SpecFloor == InitFloor /\ [][NextFloor]_vars

InitLight == params \in LightInputs /\ Constructed /\ NoRuleCheck
NextLight == WebAuditSpaceLighting \/ ProLightingAudit
SpecLight == InitLight /\ [][NextLight]_vars

InitSpatial == params \in SpatialInputs /\ Constructed /\ NoRuleCheck
NextSpatial == WebAuditTurningCircle \/ WebAuditRampSlope \/ ProSpatialAudit
SpecSpatial == InitSpatial /\ [][NextSpatial]_vars

\* pro get_demo_cases: ROOM-101 and RAMP-202
DemoCases ==
    {[zone_type |-> "Bathroom", dcof |-> 70, r_value |-> 9, lux |-> 150,
      adjacent_lux |-> 600, turning_diameter |-> 1400, slope |-> 0],
     [zone_type |-> "OutdoorRamp", dcof |-> 140, r_value |-> 12, lux |-> 350,
      adjacent_lux |-> 300, turning_diameter |-> 1800, slope |-> 15]}

\* Requests of a whole session: every zone, with each measurement taking the
\* values of the demo cases and of the form's defaults.
SessionInputs ==
    DemoCases \cup
    {[zone_type |-> z, slope |-> s, dcof |-> d, r_value |-> r, lux |-> l[1],
      adjacent_lux |-> l[2], turning_diameter |-> t] :
        z \in Zones, s \in {0, 15, 24}, d \in {70, 84, 140}, r \in {9, 12},
        l \in {<<150, 600>>, <<350, 300>>, <<300, 100>>, <<300, None>>},
        t \in {1400, 1500, 1800}}

Init == params \in SessionInputs /\ Constructed /\ NoRuleCheck
Next ==
    \/ WebAuditMaterial
    \/ WebAuditSpaceLighting
    \/ WebAuditTurningCircle
    \/ WebAuditRampSlope
    \/ ProFloorAudit
    \/ ProLightingAudit
    \/ ProSpatialAudit
Spec == Init /\ [][Next]_vars

\* Requests of a report: the lighting and the spatial measurements over
\* their whole grids, the floor measurements with slopes in whole percent and
\* DCOF in steps of 0.05 (and the form's default 0.42)
ReportInputs ==
    {i \in FloorInputs : i.slope % 3 = 0 /\ (i.dcof % 10 = 0 \/ i.dcof = 84)}
    \cup LightInputs \cup SpatialInputs

InitReport == params \in ReportInputs /\ Constructed /\ NoRuleCheck
NextReport == WebRunAudit \/ ProMainCase
SpecReport == InitReport /\ [][NextReport]_vars

RuleSlopes == 0..MaxRuleSlope

\* Elements of the two categories; None is a key missing from params
RampElements ==
    {[NoElement EXCEPT !.id = "RAMP", !.category = "Ramp", !.slope_ratio = sl,
                       !.width = w] :
        sl \in RuleSlopes \cup {None}, w \in {None, 1100, 1200, 1500}}

ToiletElements ==
    {[NoElement EXCEPT !.id = "ROOM", !.category = "Toilet", !.door_width = d,
                       !.has_emergency_call = c, !.area = a] :
        d \in {None, 750, 900, 1000}, c \in BOOLEAN, a \in {None, 35, 40, 45}}

InitRules ==
    /\ params = WebDefaults
    /\ Constructed
    /\ element \in RampElements \cup ToiletElements
    /\ rule_rows = <<>>
NextRules == RunElementCheck
SpecRules == InitRules /\ [][NextRules]_vars

----------------------------------------------------------------------------
(* Claims.                                                                 *)

Called(v) == v.status # "None"

\* the templates of a verdict's notes, in order
Tags(notes) == [i \in 1..Len(notes) |-> notes[i][1]]

\* the notes of the numeric checks: all but the advisory
CheckTags(notes) == SelectSeq(Tags(notes), LAMBDA t : t # "CRITICAL")

\* C1: the web threshold resolution takes exactly one branch, in the order
\* ramp > Therapy Pool > wet-risk zone > base: slope > 0.02 gives
\* 0.60 + 1.5*slope and R11 below slope 0.05, R12 from it, whatever the zone;
\* otherwise Therapy Pool gives 0.60/R12; otherwise Bathroom, Dining and
\* OutdoorRamp give 0.55/R11; otherwise 0.42/R9.
C1_ThresholdResolution ==
    Called(res_floor) =>
        LET z == params.zone_type
            s == params.slope
            req == res_floor.requirements
        IN  IF 100 * s > 2 * 300
            THEN /\ 600 * req.min_dcof = 200 * (360 + 3 * s)
                 /\ req.min_r = IF 100 * s < 5 * 300 THEN 11 ELSE 12
            ELSE IF z = "TherapyPool"
            THEN req.min_dcof = 120 /\ req.min_r = 12
            ELSE IF z \in {"Bathroom", "Dining", "OutdoorRamp"}
            THEN req.min_dcof = 110 /\ req.min_r = 11
            ELSE req.min_dcof = 84 /\ req.min_r = 9

\* a Therapy Pool on a ramp of slope 0.04 was resolved
C1_Witness ==
    /\ Called(res_floor)
    /\ params.zone_type = "TherapyPool"
    /\ params.slope = 12
    /\ res_floor.requirements.min_dcof = 132
    /\ res_floor.requirements.min_r = 11

\* the thresholds the pro variant resolves: ramp, then bathroom, then base
C2_ProMinDcof ==
    IF params.slope > 6 THEN 120 + params.slope
    ELSE IF params.zone_type = "Bathroom" THEN 110 ELSE 84

C2_ProMinR ==
    IF params.slope > 6 THEN (IF params.slope < 15 THEN 11 ELSE 12)
    ELSE IF params.zone_type = "Bathroom" THEN 11 ELSE 9

C2_Expected(status, notes, dcof_fails, r_fails) ==
    /\ status = (IF dcof_fails \/ r_fails THEN "FAIL" ELSE "PASS")
    /\ CheckTags(notes) = (IF dcof_fails THEN <<"DCOF">> ELSE <<>>)
                           \o (IF r_fails THEN <<"R">> ELSE <<>>)

\* C2: the floor verdict, web and pro, is FAIL exactly when the measured DCOF
\* is below the resolved minimum or the measured R-value is below the
\* resolved minimum, and PASS otherwise (never WARNING); a measurement equal
\* to its threshold passes; each failed check adds exactly one note.
C2_FloorVerdict ==
    /\ Called(res_floor) =>
          C2_Expected(res_floor.status, res_floor.log,
                      params.dcof < res_floor.requirements.min_dcof,
                      params.r_value < res_floor.requirements.min_r)
    /\ Called(result_floor) =>
          C2_Expected(result_floor.status, result_floor.logs,
                      params.dcof < C2_ProMinDcof, params.r_value < C2_ProMinR)

\* Corridor, slope 0, DCOF 0.42, R9 was audited by both variants and passed
C2_Witness ==
    /\ params.zone_type = "Corridor" /\ params.slope = 0
    /\ params.dcof = 84 /\ params.r_value = 9
    /\ Called(res_floor) /\ res_floor.status = "PASS"
    /\ Called(result_floor) /\ result_floor.status = "PASS"

C3_Advisory(status, notes) ==
    LET n == Len(notes)
        has == \E i \in 1..n : notes[i][1] = "CRITICAL"
    IN  /\ has <=> (status = "FAIL" /\ params.zone_type \in {"Bathroom", "OutdoorRamp"})
        /\ has => /\ notes[n][1] = "CRITICAL"
                  /\ \A i \in 1..(n - 1) : notes[i][1] # "CRITICAL"
                  /\ n >= 2
        /\ (status = "FAIL") <=> (CheckTags(notes) # <<>>)

\* C3: the high-risk advisory is in the notes exactly when the status is FAIL
\* and the zone is Bathroom or OutdoorRamp; it comes once, after the check
\* notes, and the status is that of the checks alone; Bathroom, slope 0, DCOF 0.35, R9 fails against 0.55 with the
\* advisory.
C3_HighRiskAdvisory ==
    /\ Called(res_floor) => C3_Advisory(res_floor.status, res_floor.log)
    /\ Called(result_floor) => C3_Advisory(result_floor.status, result_floor.logs)
    /\ ( /\ Called(res_floor)
         /\ params.zone_type = "Bathroom" /\ params.slope = 0
         /\ params.dcof = 70 /\ params.r_value = 9 )
       => /\ res_floor.status = "FAIL"
          /\ res_floor.log[1] = <<"DCOF", 70, 110>>
          /\ res_floor.log[Len(res_floor.log)] = <<"CRITICAL">>

\* the failing bathroom was audited by both variants
C3_Witness ==
    /\ params.zone_type = "Bathroom" /\ params.slope = 0
    /\ params.dcof = 70 /\ params.r_value = 9
    /\ Called(res_floor) /\ res_floor.status = "FAIL"
    /\ Tags(res_floor.log) = <<"DCOF", "R", "CRITICAL">>
    /\ Called(result_floor) /\ result_floor.status = "FAIL"
    /\ Tags(result_floor.logs) = <<"DCOF", "R", "CRITICAL">>

C4_Target ==
    CASE params.zone_type = "Dining"      -> 500
      [] params.zone_type = "Task"        -> 750
      [] params.zone_type = "Corridor"    -> 300
      [] params.zone_type = "Bathroom"    -> 500
      [] params.zone_type = "TherapyPool" -> 750
      [] params.zone_type = "OutdoorRamp" -> 150
      [] OTHER                            -> 300

\* C4: the web illuminance verdict: the target is the zone's table entry, or
\* 300 lux for a zone not in the table; the status is FAIL exactly when the
\* measured lux is below the target or an adjacent lux is provided (not
\* None, not 0) and max/(min + 0.01) > 3.0; an absent or zero adjacent lux
\* skips the adaptation check; each failed check adds exactly one note, so
\* lux 150, adjacent 600, Bathroom is FAIL with two notes.
C4_IlluminanceVerdict ==
    Called(res_light) =>
        LET lux == params.lux
            adj == params.adjacent_lux
            hi == IF lux >= adj THEN lux ELSE adj
            lo == IF lux >= adj THEN adj ELSE lux
            dark == lux < C4_Target
            glare == adj # None /\ adj # 0 /\ 100 * hi > 3 * (100 * lo + 1)
        IN  /\ res_light.target_lux = C4_Target
            /\ res_light.status = (IF dark \/ glare THEN "FAIL" ELSE "PASS")
            /\ Tags(res_light.log) = (IF dark THEN <<"LUX">> ELSE <<>>)
                                      \o (IF glare THEN <<"RATIO">> ELSE <<>>)
            /\ (lux = 150 /\ adj = 600 /\ params.zone_type = "Bathroom")
                  => res_light.status = "FAIL" /\ Len(res_light.log) = 2

\* lux 150 beside 600 in a Bathroom was audited: two notes
C4_Witness ==
    /\ params.zone_type = "Bathroom" /\ params.lux = 150
    /\ params.adjacent_lux = 600
    /\ Called(res_light) /\ res_light.status = "FAIL"
    /\ res_light.log = <<<<"LUX", 150, 500>>, <<"RATIO", 600, 150, 3>>>>

\* C5: the turning check fails exactly when the diameter is below 1525 mm,
\* for every diameter >= 0, 0 included; 1525 passes and 1500 fails; in the
\* web variant and in the pro variant (with a slope of 0).
C5_TurningCircle ==
    /\ Called(res_turn) =>
          res_turn.status = (IF params.turning_diameter < 1525
                             THEN "FAIL" ELSE "PASS")
    /\ (Called(result_spatial) /\ params.slope = 0) =>
          result_spatial.status = (IF params.turning_diameter < 1525
                                   THEN "FAIL" ELSE "PASS")

\* the slope verdict the claims give: FAIL above 1/12, WARNING above 1/20 up
\* to 1/12, PASS up to 1/20
C6_SlopeStatus ==
    IF 12 * params.slope > 300 THEN "FAIL"
    ELSE IF 20 * params.slope > 300 THEN "WARNING"
    ELSE "PASS"

\* the pro turning check passes: the diameter reaches 1525 mm, or is 0
C6_ProTurnPasses ==
    params.turning_diameter >= 1525 \/ params.turning_diameter = 0

\* C6: the slope verdict is FAIL for slope > 1/12, WARNING for
\* 1/20 < slope <= 1/12 and PASS for slope <= 1/20, a slope of exactly 1/12
\* being a WARNING; for web audit_ramp_slope, and for pro SpatialAudit.audit
\* when its turning check passes.
C6_RampSlope ==
    /\ Called(res_slope) =>
          /\ res_slope.status = C6_SlopeStatus
          /\ (12 * params.slope = 300) => res_slope.status = "WARNING"
    /\ (Called(result_spatial) /\ C6_ProTurnPasses) =>
          /\ result_spatial.status = C6_SlopeStatus
          /\ (12 * params.slope = 300) => result_spatial.status = "WARNING"

\* a slope of exactly 1/12 was audited by both variants
C6_Witness ==
    /\ 12 * params.slope = 300 /\ params.turning_diameter = 1525
    /\ Called(res_slope) /\ res_slope.status = "WARNING"
    /\ Called(result_spatial) /\ result_spatial.status = "WARNING"

\* C7, as claimed: a slope of exactly 0.05 yields WARNING from the slope check.
C7_Original ==
    (100 * params.slope = 5 * 300) =>
        /\ Called(res_slope) => res_slope.status = "WARNING"
        /\ (Called(result_spatial) /\ C6_ProTurnPasses) =>
              result_spatial.status = "WARNING"

\* C7, amended: a slope of exactly 0.05 yields PASS with no note from web
\* audit_ramp_slope, and adds no slope note in pro SpatialAudit.audit, whose
\* status is then PASS when its turning check passes.
C7_SlopeAtOneInTwenty ==
    (100 * params.slope = 5 * 300) =>
        /\ Called(res_slope) =>
              res_slope.status = "PASS" /\ res_slope.log = <<>>
        /\ Called(result_spatial) =>
              /\ \A i \in 1..Len(result_spatial.logs) :
                    result_spatial.logs[i][1] = "TURN"
              /\ C6_ProTurnPasses => result_spatial.status = "PASS"

\* a slope of exactly 0.05 was audited by both variants
C7_Witness ==
    /\ 100 * params.slope = 5 * 300 /\ params.turning_diameter = 1525
    /\ Called(res_slope) /\ res_slope.status = "PASS"
    /\ Called(result_spatial) /\ result_spatial.status = "PASS"

\* C8: a verdict is FAIL exactly when one of its numeric checks failed: pro
\* SpatialAudit.audit returns FAIL whenever 0 < diameter < 1525, for every
\* slope, and otherwise FAIL exactly when slope > 1/12.
C8_FailIffCheckFailed ==
    Called(result_spatial) =>
        LET d == params.turning_diameter
        IN  (result_spatial.status = "FAIL")
              <=> ((d > 0 /\ d < 1525) \/ 12 * params.slope > 300)

\* C10: no call of an evaluator changes an auditor's fields or the input
\* record, and a call of an evaluator that has already returned a verdict for
\* the record returns the same verdict again, whichever other evaluators
\* were called in between.
C10_Idempotent ==
    [][ /\ auditors' = auditors
        /\ params' = params
        /\ (WebAuditMaterial /\ Called(res_floor)) => res_floor' = res_floor
        /\ (WebAuditSpaceLighting /\ Called(res_light)) => res_light' = res_light
        /\ (WebAuditTurningCircle /\ Called(res_turn)) => res_turn' = res_turn
        /\ (WebAuditRampSlope /\ Called(res_slope)) => res_slope' = res_slope
        /\ (ProFloorAudit /\ Called(result_floor)) => result_floor' = result_floor
        /\ (ProLightingAudit /\ Called(result_light)) => result_light' = result_light
        /\ (ProSpatialAudit /\ Called(result_spatial))
              => result_spatial' = result_spatial ]_vars

\* every evaluator has returned a verdict for the failing bathroom
C10_Witness ==
    /\ params.zone_type = "Bathroom" /\ params.dcof = 70 /\ params.lux = 150
    /\ Called(res_floor) /\ Called(res_light) /\ Called(res_turn)
    /\ Called(res_slope) /\ Called(result_floor) /\ Called(result_light)
    /\ Called(result_spatial)
    /\ res_floor.status = "FAIL" /\ result_light.status = "FAIL"

\* the statuses of a table's rows, in order
RowStatuses(rows, field) == [i \in 1..Len(rows) |-> rows[i][field]]

\* C11: the report handed to a presentation adapter holds exactly one verdict
\* for every rule module evaluated, in evaluation order: the web report
\* context and the exported PDF hold the floor, lighting, turning and slope
\* verdicts of the run; the pro table has one row per auditor in the order
\* floor, lighting, spatial.
C11_ReportComplete ==
    /\ pdf_context.zone_name # "None" =>
          /\ "res_floor" \in DOMAIN pdf_context
          /\ "res_light" \in DOMAIN pdf_context
          /\ "res_turn" \in DOMAIN pdf_context
          /\ "res_slope" \in DOMAIN pdf_context
          /\ pdf_context.res_floor = res_floor
          /\ pdf_context.res_light = res_light
          /\ pdf_context.res_turn = res_turn
          /\ pdf_context.res_slope = res_slope
          /\ RowStatuses(pdf_table, "status")
                = <<res_floor.status, res_light.status, res_turn.status,
                    res_slope.status>>
    /\ table # <<>> =>
          /\ RowStatuses(table, "module") = <<"floor", "light", "spatial">>
          /\ Len(table) = 3

\* C12: for the zones both variants name (bathroom, outdoor ramp, and a
\* corridor or unlisted zone) and the same measurements, pro
\* FloorSafetyAudit.audit returns the status of web audit_material, and pro
\* LightingAudit.audit the status of web audit_space_lighting.
C12_SameStatus ==
    params.zone_type \in {"Bathroom", "OutdoorRamp", "Corridor", "Unlisted"} =>
        /\ (Called(res_floor) /\ Called(result_floor)) =>
              result_floor.status = res_floor.status
        /\ (Called(res_light) /\ Called(result_light)) =>
              result_light.status = res_light.status

\* C13: rule R-003 of the rule-table auditor passes a ramp exactly when its
\* slope ratio (0 when the key is missing) is at most 1/12, and fails it for
\* every slope ratio above 1/12.
C13_RampSlopeRule ==
    (element.category = "Ramp" /\ rule_rows # <<>>) =>
        LET slope == IF element.slope_ratio = None THEN 0 ELSE element.slope_ratio
        IN  /\ \E i \in 1..Len(rule_rows) : rule_rows[i].id = "R-003"
            /\ \A i \in 1..Len(rule_rows) :
                  rule_rows[i].id = "R-003" =>
                      ((rule_rows[i].status = "PASS") <=> (12 * slope <= 3000))

\* the notes list of a verdict is empty exactly when its status is PASS
NotesIffNotPass(status, notes) == (notes = <<>>) <=> (status = "PASS")

\* C14: every verdict of every web and pro evaluator has an empty notes list
\* if and only if its status is PASS; the web handler's first-note accesses
\* for the turning circle and the ramp slope never index an empty list; and
\* the pro report shows the "no remediation needed" panel exactly when all
\* three pro auditors returned PASS.
C14_NotesIffNotPass ==
    /\ Called(res_floor) => NotesIffNotPass(res_floor.status, res_floor.log)
    /\ Called(res_light) => NotesIffNotPass(res_light.status, res_light.log)
    /\ Called(res_turn) => NotesIffNotPass(res_turn.status, res_turn.log)
    /\ Called(res_slope) => NotesIffNotPass(res_slope.status, res_slope.log)
    /\ Called(result_floor) =>
          NotesIffNotPass(result_floor.status, result_floor.logs)
    /\ Called(result_light) =>
          NotesIffNotPass(result_light.status, result_light.logs)
    /\ Called(result_spatial) =>
          NotesIffNotPass(result_spatial.status, result_spatial.logs)
    /\ tabs # <<>> =>
          /\ \A i \in 1..2 : tabs[3][i][2][1] # "IndexError"
          /\ pdf_context.zone_name # "None"
    /\ panel # "None" =>
          ((panel = "excellent") <=>
               /\ result_floor.status = "PASS"
               /\ result_light.status = "PASS"
               /\ result_spatial.status = "PASS")

\* both reports were produced for a room whose turning circle fails and
\* whose slope draws a warning: the web tab shows the two first notes and the
\* pro report shows the remediation panel
C14_Witness ==
    /\ Called(res_turn) /\ res_turn.status = "FAIL"
    /\ res_slope.status = "WARNING"
    /\ tabs # <<>>
    /\ tabs[3][1] = <<"error", res_turn.log[1]>>
    /\ tabs[3][2] = <<"warning", res_slope.log[1]>>
    /\ Called(result_spatial) /\ result_spatial.status # "PASS"
    /\ panel = "remediation"

----------------------------------------------------------------------------
====
